---- MODULE Spec2Model ----
(***************************************************************************)
(* CloudHSMv2 cluster and HSM resources of the AWS provider                *)
(* (aws/resource_aws_cloudhsm2_cluster.go): the create / delete handlers,  *)
(* their retried mutating call, the status refresh functions and the wait  *)
(* for the remote state to converge.                                       *)
(*                                                                         *)
(* One handler invocation runs at a time (pc = "idle" between them).  The  *)
(* remote API is the environment: every call's answer is drawn from the    *)
(* small sets below.  Time is counted in ticks of 30 seconds.              *)
(***************************************************************************)
EXTENDS Integers, Sequences, FiniteSets, TLC

VARIABLES
    op,        \* the handler that is running, "none" between invocations
    pc,        \* its position: idle, lookup, mutate, wait, tags, read, done
    d,         \* *schema.ResourceData: the persisted attributes and d.Id()
    req,       \* the input of the last mutating request sent
    calls,     \* mutating calls issued by this invocation
    lastErr,   \* the error of the last mutating attempt
    rElapsed,  \* ticks spent by resource.Retry
    conf,      \* the resource.StateChangeConf of this invocation
    elapsed,   \* ticks spent by WaitForState
    polls,     \* calls of the refresh function made by WaitForState
    desc,      \* what the last DescribeClusters call really answered
    rf,        \* what the refresh function returned last
    waitOut,   \* what WaitForState returned
    output,    \* the identifier in the output of the successful create call
    tagLog,    \* the UntagResource / TagResource requests sent
    ret,       \* the error the handler returned (NoErr: nil)
    describes, \* DescribeClusters calls issued by this invocation
    subnetMapping, \* cluster.SubnetMapping of the cluster HSM Create looked up
    tags,      \* d.GetChange("tags") as setTagsAwsCloudHsm2Cluster saw it
    tagsErr    \* what setTagsAwsCloudHsm2Cluster returned

vars == <<op, pc, d, req, calls, lastErr, rElapsed, conf, elapsed, polls,
          desc, rf, waitOut, output, tagLog, ret, describes, subnetMapping,
          tags, tagsErr>>

-----------------------------------------------------------------------------
(* Bounds and program constants                                            *)

\* d.Timeout(schema.TimeoutCreate): the configured wait timeout, in ticks.
WaitTimeout == 4

\* resource.Retry(180*time.Second, ...): six ticks of 30 seconds.
RetryTimeout == 6

\* StateChangeConf.MinTimeout and .Delay: 30 seconds, one tick each.
MinTimeout == 1
Delay == 1

-----------------------------------------------------------------------------
(* Values                                                                  *)

ClusterIds == {"cluster-1", "cluster-2"}
HsmIds == {"hsm-1", "hsm-2"}
BackupIds == {"", "backup-123"}

\* cloudhsmv2.ClusterState*
ClusterStates == {"CREATE_IN_PROGRESS", "UNINITIALIZED", "INITIALIZE_IN_PROGRESS",
                  "INITIALIZED", "ACTIVE", "UPDATE_IN_PROGRESS",
                  "DELETE_IN_PROGRESS", "DELETED", "DEGRADED"}

\* cloudhsmv2.HsmState*
HsmStates == {"CREATE_IN_PROGRESS", "ACTIVE", "DEGRADED", "DELETE_IN_PROGRESS",
              "DELETED"}

\* An error value: nil, an awserr.Error (code, message), or one of the errors
\* of helper/resource (code, the state it reports).
NoErr == [code |-> "nil", msg |-> ""]

ErrCodeCloudHsmInternalFailureException == "CloudHsmInternalFailureException"
InternalFailureMessage == "request was rejected because of an AWS CloudHSM internal failure"

ApiErrors ==
    [code : {ErrCodeCloudHsmInternalFailureException, "CloudHsmInvalidRequestException"},
     msg : {InternalFailureMessage, "request was rejected"}]

DescribeErrors ==
    {[code |-> "CloudHsmAccessDeniedException", msg |-> "request was rejected"],
     [code |-> ErrCodeCloudHsmInternalFailureException, msg |-> InternalFailureMessage]}

\* cluster.SubnetMapping: availability zone -> subnet.  A subnet lies in one
\* zone, so no subnet appears under two zones.
AvailabilityZones == {"", "us-east-1a", "us-east-1b"}
SubnetIds == {"", "subnet-1", "subnet-2"}
IpAddresses == {"", "10.0.1.5"}
NoSubnetMapping == <<>>
SubnetMappings ==
    {NoSubnetMapping,
     [az \in {"us-east-1a"} |-> "subnet-1"],
     [az \in {"us-east-1a", "us-east-1b"} |->
        IF az = "us-east-1a" THEN "subnet-1" ELSE "subnet-2"]}

\* *cloudhsmv2.Certificates
NilCertificates ==
    [isNil |-> TRUE, ClusterCsr |-> "", AwsHardwareCertificate |-> "",
     HsmCertificate |-> "", ManufacturerHardwareCertificate |-> "",
     ClusterCertificate |-> ""]
Certificates ==
    [isNil |-> FALSE, ClusterCsr |-> "csr", AwsHardwareCertificate |-> "aws-hw",
     HsmCertificate |-> "hsm", ManufacturerHardwareCertificate |-> "mfr-hw",
     ClusterCertificate |-> "cluster-cert"]

\* *cloudhsmv2.Hsm and *cloudhsmv2.Cluster; isNil marks the nil pointer.
NilHsm == [isNil |-> TRUE, HsmId |-> "", State |-> ""]
NilCluster ==
    [isNil |-> TRUE, ClusterId |-> "", State |-> "", SourceBackupId |-> "", Hsms |-> <<>>,
     SubnetMapping |-> NoSubnetMapping, Certificates |-> NilCertificates]

Hsms == [isNil : {FALSE}, HsmId : HsmIds, State : HsmStates]

\* The HSM lists a cluster can carry: no HSM id twice (so the order of a
\* list does not matter to a search by id, and one order is kept).
HsmLists ==
    {<<>>} \cup {<<h>> : h \in Hsms}
           \cup {p \in Hsms \X Hsms : p[1].HsmId = "hsm-1" /\ p[2].HsmId = "hsm-2"}

\* DescribeClustersOutput, or the error of the call.  MaxResults is 1.
DescribeOutputs(states, backups, hsmLists, mappings, certs) ==
    {[err |-> e, Clusters |-> <<>>] : e \in DescribeErrors}
    \cup {[err |-> NoErr, Clusters |-> <<>>]}
    \cup {[err |-> NoErr, Clusters |-> <<c>>] :
            c \in [isNil : {FALSE}, ClusterId : ClusterIds, State : states,
                   SourceBackupId : backups, Hsms : hsmLists,
                   SubnetMapping : mappings, Certificates : certs]}

\* What DescribeClusters answers to the cluster handlers, to the HSM ones, and
\* to the lookup of the owning cluster in HSM Create.
ClusterOutputs ==
    DescribeOutputs(ClusterStates, BackupIds, {<<>>}, {NoSubnetMapping},
                    {NilCertificates, Certificates})
HsmOutputs ==
    DescribeOutputs({"ACTIVE"}, {""}, HsmLists, {NoSubnetMapping},
                    {NilCertificates})
LookupOutputs ==
    DescribeOutputs({"ACTIVE"}, {""}, {<<>>}, SubnetMappings, {NilCertificates})

\* The first value a refresh function returns: nil, the int 42, or the entity.
NilRes == [kind |-> "nil", id |-> "", state |-> ""]
FortyTwo == [kind |-> "int", id |-> "42", state |-> ""]
ClusterRes(c) == [kind |-> "cluster", id |-> c.ClusterId, state |-> c.State]
HsmRes(h) == [kind |-> "hsm", id |-> h.HsmId, state |-> h.State]

NoReq ==
    [api |-> "none", ClusterId |-> "", HsmId |-> "", SourceBackupId |-> "",
     AvailabilityZone |-> "", IpAddress |-> ""]
NoConf == [Pending |-> {}, Target |-> {}, Timeout |-> 0]
NoDesc == [by |-> "none", err |-> NoErr, listed |-> FALSE, certs |-> FALSE]
NoRf == [res |-> NilRes, state |-> "", err |-> NoErr]
NoWait == [done |-> FALSE, res |-> NilRes, err |-> NoErr]
NoTags == [old |-> <<>>, new |-> <<>>]

\* The attributes of the two schemas that the handlers' logic reads or writes.
ClusterSchema ==
    {"backup_identifier", "hsm_type", "subnet_ids", "cluster_id", "vpc_id",
     "cluster_certificates", "security_group_id", "cluster_state", "tags"}
HsmSchema ==
    {"cluster_id", "subnet_id", "availability_zone", "ip_address", "hsm_id",
     "hsm_state", "hsm_eni_id"}
NoData ==
    [id |-> "", cluster_id |-> "", backup_identifier |-> "", cluster_state |-> "",
     cluster_certificates |-> <<>>, subnet_id |-> "", availability_zone |-> "",
     ip_address |-> "", hsm_state |-> ""]

-----------------------------------------------------------------------------
(* Describe and refresh                                                    *)

\* for _, c := range out.Clusters { if *c.ClusterId == clusterId { cluster = c } }
RECURSIVE RangeClusters(_, _, _)
RangeClusters(cs, clusterId, cluster) ==
    IF cs = <<>> THEN cluster
    ELSE RangeClusters(Tail(cs), clusterId,
                       IF Head(cs).ClusterId = clusterId THEN Head(cs) ELSE cluster)

\* for _, h := range cluster.Hsms { if *h.HsmId == hsmId { hsm = h } }
RECURSIVE RangeHsms(_, _, _)
RangeHsms(hs, hsmId, hsm) ==
    IF hs = <<>> THEN hsm
    ELSE RangeHsms(Tail(hs), hsmId,
                   IF Head(hs).HsmId = hsmId THEN Head(hs) ELSE hsm)

describeCloudHsm2Cluster(out, clusterId) ==
    IF out.err # NoErr
    THEN [cluster |-> NilCluster, err |-> out.err]
    ELSE [cluster |-> RangeClusters(out.Clusters, clusterId, NilCluster), err |-> NoErr]

describeHsm(out, clusterId, hsmId) ==
    IF out.err # NoErr
    THEN [hsm |-> NilHsm, err |-> out.err]
    ELSE LET cluster == RangeClusters(out.Clusters, clusterId, NilCluster)
         IN  [hsm |-> IF cluster.isNil THEN NilHsm
                      ELSE RangeHsms(cluster.Hsms, hsmId, NilHsm),
              err |-> NoErr]

resourceAwsCloudHsm2ClusterRefreshFunc(out, id) ==
    LET r == describeCloudHsm2Cluster(out, id)
    IN  IF r.cluster.isNil
        THEN [res |-> FortyTwo, state |-> "destroyed", err |-> NoErr]
        ELSE [res |-> ClusterRes(r.cluster), state |-> r.cluster.State, err |-> r.err]

\* Mutant: an HSM that is not listed is reported as an error.
resourceAwsCloudHsm2HsmRefreshFunc_NotFound(out, clusterId, id) ==
    LET r == describeHsm(out, clusterId, id)
    IN  IF r.hsm.isNil
        THEN [res |-> NilRes, state |-> "",
              err |-> [code |-> "NotFoundError", msg |-> id]]
        ELSE [res |-> HsmRes(r.hsm), state |-> r.hsm.State, err |-> r.err]

resourceAwsCloudHsm2HsmRefreshFunc(out, clusterId, id) ==
    LET r == describeHsm(out, clusterId, id)
    IN  IF r.hsm.isNil
        THEN [res |-> FortyTwo, state |-> "destroyed", err |-> NoErr]
        ELSE [res |-> HsmRes(r.hsm), state |-> r.hsm.State, err |-> r.err]

\* What a DescribeClusters answer really says about the entity asked for.
ClusterListed(out, clusterId) ==
    \E i \in DOMAIN out.Clusters : out.Clusters[i].ClusterId = clusterId

HsmListed(out, clusterId, hsmId) ==
    \E i \in DOMAIN out.Clusters :
        /\ out.Clusters[i].ClusterId = clusterId
        /\ \E j \in DOMAIN out.Clusters[i].Hsms : out.Clusters[i].Hsms[j].HsmId = hsmId

-----------------------------------------------------------------------------
(* The retried mutating call                                               *)

\* isAWSErr(err, code, message): an awserr.Error with that code whose message
\* contains the given text.
isAWSErr(err, code, message) ==
    err # NoErr /\ err.code = code /\ err.msg = message

\* The function handed to resource.Retry by each handler: nil, a
\* RetryableError or a NonRetryableError.
\* Mutant: every error is retried.
resourceAwsCloudHsm2ClusterCreateRetryFunc_All(err) ==
    IF err # NoErr THEN "RetryableError" ELSE "nil"

resourceAwsCloudHsm2ClusterCreateRetryFunc(err) ==
    IF err # NoErr
    THEN IF isAWSErr(err, ErrCodeCloudHsmInternalFailureException, InternalFailureMessage)
         THEN "RetryableError" ELSE "NonRetryableError"
    ELSE "nil"

resourceAwsCloudHsm2ClusterDeleteRetryFunc(err) ==
    IF err # NoErr
    THEN IF isAWSErr(err, ErrCodeCloudHsmInternalFailureException, InternalFailureMessage)
         THEN "RetryableError" ELSE "NonRetryableError"
    ELSE "nil"

resourceAwsCloudHsm2HsmCreateRetryFunc(err) ==
    IF err # NoErr
    THEN IF isAWSErr(err, ErrCodeCloudHsmInternalFailureException, InternalFailureMessage)
         THEN "RetryableError" ELSE "NonRetryableError"
    ELSE "nil"

resourceAwsCloudHsm2HsmDeleteRetryFunc(err) ==
    IF err # NoErr
    THEN IF isAWSErr(err, ErrCodeCloudHsmInternalFailureException, InternalFailureMessage)
         THEN "RetryableError" ELSE "NonRetryableError"
    ELSE "nil"

RetryFunc(o, err) ==
    CASE o = "ClusterCreate" -> resourceAwsCloudHsm2ClusterCreateRetryFunc(err)
      [] o = "ClusterDelete" -> resourceAwsCloudHsm2ClusterDeleteRetryFunc(err)
      [] o = "HsmCreate" -> resourceAwsCloudHsm2HsmCreateRetryFunc(err)
      [] o = "HsmDelete" -> resourceAwsCloudHsm2HsmDeleteRetryFunc(err)

\* resource.Retry after one attempt that took the ticks up to `spent`: done
\* on nil, the error at once when it is not retryable, another attempt while
\* the ceiling allows, the last error when it does not.
Retry(timeout, spent, outcome) ==
    CASE outcome = "nil" -> "done"
      [] outcome = "NonRetryableError" -> "fail"
      [] outcome = "RetryableError" -> IF spent + 1 < timeout THEN "again" ELSE "fail"

-----------------------------------------------------------------------------
(* The requests and the wait configurations of the four handlers           *)

ClusterCreateInput(backupId) ==
    [NoReq EXCEPT !.api = "CreateCluster",
                  !.SourceBackupId = IF backupId # "" THEN backupId ELSE ""]

ClusterDeleteInput(id) ==
    [NoReq EXCEPT !.api = "DeleteCluster", !.ClusterId = id]

\* Mutant: the subnet itself is sent as the zone.
availabilityZone_Subnet(zone, subnetId, mapping) ==
    IF zone = "" THEN subnetId ELSE zone

\* availabilityZone := d.Get("availability_zone"); if it is empty, the zone
\* under which cluster.SubnetMapping holds d.Get("subnet_id"), and still
\* empty when no zone does.
availabilityZone(zone, subnetId, mapping) ==
    IF zone = ""
    THEN LET found == {az \in DOMAIN mapping : mapping[az] = subnetId}
         IN  IF found = {} THEN zone ELSE CHOOSE az \in found : TRUE
    ELSE zone

HsmCreateInput(clusterId, zone, ipAddress) ==
    [NoReq EXCEPT !.api = "CreateHsm", !.ClusterId = clusterId,
                  !.AvailabilityZone = zone,
                  !.IpAddress = IF ipAddress # "" THEN ipAddress ELSE ""]

HsmDeleteInput(clusterId, id) ==
    [NoReq EXCEPT !.api = "DeleteHsm", !.ClusterId = clusterId, !.HsmId = id]

ClusterCreatePending == {"CREATE_IN_PROGRESS", "INITIALIZE_IN_PROGRESS"}

\* Mutant: the target does not depend on the backup identifier.
ClusterCreateTargetState_Fixed(backupId) == "UNINITIALIZED"

ClusterCreateTargetState(backupId) ==
    IF backupId # "" THEN "ACTIVE" ELSE "UNINITIALIZED"

\* Mutant: a state that is not transitional is waited on.
ClusterDeletePending_Wide == {"DELETE_IN_PROGRESS", "ACTIVE"}

ClusterDeletePending == {"DELETE_IN_PROGRESS"}
\* Mutant: a cluster that is no longer listed counts as deleted.
ClusterDeleteTarget_WithDestroyed == {"DELETED", "destroyed"}

ClusterDeleteTarget == {"DELETED"}

HsmCreatePending == {"CREATE_IN_PROGRESS", "destroyed"}
\* Mutant: the state of an HSM still being created counts as reached.
HsmCreateTarget_Early == {"ACTIVE", "CREATE_IN_PROGRESS"}

HsmCreateTarget == {"ACTIVE"}

HsmDeletePending == {"DELETE_IN_PROGRESS"}
\* Mutant: the HSM wait expects the literal state, as the cluster's does.
HsmDeleteTarget_Literal == {"DELETED"}

HsmDeleteTarget == {"destroyed"}

StateConf(o, backupId) ==
    CASE o = "ClusterCreate" ->
            [Pending |-> ClusterCreatePending,
             Target |-> {ClusterCreateTargetState(backupId)}, Timeout |-> WaitTimeout]
      [] o = "ClusterDelete" ->
            [Pending |-> ClusterDeletePending, Target |-> ClusterDeleteTarget,
             Timeout |-> WaitTimeout]
      [] o = "HsmCreate" ->
            [Pending |-> HsmCreatePending, Target |-> HsmCreateTarget,
             Timeout |-> WaitTimeout]
      [] o = "HsmDelete" ->
            [Pending |-> HsmDeletePending, Target |-> HsmDeleteTarget,
             Timeout |-> WaitTimeout]

\* Mutant: the identifier is not recorded.
SetId_Skipped(data, id) == data

\* d.SetId(aws.StringValue(output.Cluster.ClusterId)) and the HSM's like.
SetId(data, id) == [data EXCEPT !.id = id]

-----------------------------------------------------------------------------
(* WaitForState                                                            *)

TimeoutError(lastState) == [code |-> "TimeoutError", msg |-> lastState]
UnexpectedStateError(state) == [code |-> "UnexpectedStateError", msg |-> state]

\* One round of the refresh loop on what the refresh function returned.
WaitForStateStep(c, r) ==
    CASE r.err # NoErr -> "error"
      [] r.err = NoErr /\ r.state \in c.Target -> "target"
      [] r.err = NoErr /\ r.state \notin c.Target /\ r.state \in c.Pending -> "pending"
      [] OTHER -> "unexpected"

\* if errWait != nil { return fmt.Errorf(...) } of each handler, and where it
\* goes on when the wait succeeded.
Errorf(what, err) == [code |-> "fmt.Errorf", msg |-> what]

\* Mutant: the error of the wait is dropped.
ClusterCreateAfterWait_Ignored(backupId, errWait) == [pc |-> "tags", ret |-> NoErr]

ClusterCreateAfterWait(backupId, errWait) ==
    IF errWait # NoErr
    THEN IF backupId = ""
         THEN [pc |-> "done", ret |-> Errorf("waiting for UNINITIALIZED", errWait)]
         ELSE [pc |-> "done", ret |-> Errorf("waiting for ACTIVE", errWait)]
    ELSE [pc |-> "tags", ret |-> NoErr]

ClusterDeleteAfterWait(errWait) ==
    IF errWait # NoErr
    THEN [pc |-> "done", ret |-> Errorf("waiting for DELETED", errWait)]
    ELSE [pc |-> "done", ret |-> NoErr]

HsmCreateAfterWait(errWait) ==
    IF errWait # NoErr
    THEN [pc |-> "done", ret |-> Errorf("waiting for HSM ACTIVE", errWait)]
    ELSE [pc |-> "read", ret |-> NoErr]

HsmDeleteAfterWait(errWait) ==
    IF errWait # NoErr
    THEN [pc |-> "done", ret |-> Errorf("waiting for HSM DELETED", errWait)]
    ELSE [pc |-> "done", ret |-> NoErr]

AfterWait(o, backupId, errWait) ==
    CASE o = "ClusterCreate" -> ClusterCreateAfterWait(backupId, errWait)
      [] o = "ClusterDelete" -> ClusterDeleteAfterWait(errWait)
      [] o = "HsmCreate" -> HsmCreateAfterWait(errWait)
      [] o = "HsmDelete" -> HsmDeleteAfterWait(errWait)

-----------------------------------------------------------------------------
(* Tags                                                                    *)

TagKeys == {"Name", "Env"}
TagValues == {"a", "b"}
TagErrors == {[code |-> "CloudHsmInvalidRequestException", msg |-> "request was rejected"]}
TagMaps == UNION {[K -> TagValues] : K \in SUBSET TagKeys}

\* diffTagsGeneric(old, new): the tags to create (added or changed keys) and
\* the tags to remove (keys that are gone).
diffTagsGeneric(old, new) ==
    [create |-> [k \in {x \in DOMAIN new : x \notin DOMAIN old \/ old[x] # new[x]}
                   |-> new[k]],
     remove |-> [k \in DOMAIN old \ DOMAIN new |-> old[k]]]

\* The orders in which range can walk the keys of a map.
Orders(K) == {s \in UNION {[1..n -> K] : n \in {Cardinality(K)}} :
                \A i, j \in DOMAIN s : i # j => s[i] # s[j]}

\* for k, v := range create { tagList = append(tagList, &Tag{Key: &k, Value: v}) }:
\* every entry holds the address of the one loop variable k, which is left at
\* the key visited last.
TagList(create, order) ==
    [i \in DOMAIN order |-> [Key |-> order[Len(order)], Value |-> create[order[i]]]]

UntagResourceInput(id, remove) ==
    [api |-> "UntagResource", ResourceId |-> id, TagKeyList |-> DOMAIN remove,
     TagList |-> <<>>]

TagResourceInput(id, tagList) ==
    [api |-> "TagResource", ResourceId |-> id, TagKeyList |-> {}, TagList |-> tagList]

\* Mutant: the tags are created before the removed ones are untagged.
setTagsAwsCloudHsm2Cluster_TagFirst(id, old, new, order, untagErr, tagErr) ==
    LET diff == diffTagsGeneric(old, new)
        untag == IF DOMAIN diff.remove # {}
                 THEN <<UntagResourceInput(id, diff.remove)>> ELSE <<>>
        tag == IF DOMAIN diff.create # {}
               THEN <<TagResourceInput(id, TagList(diff.create, order))>> ELSE <<>>
    IN  IF old = new THEN [log |-> <<>>, err |-> NoErr]
        ELSE IF tag # <<>> /\ tagErr # NoErr
             THEN [log |-> tag, err |-> tagErr]
             ELSE IF untag # <<>> /\ untagErr # NoErr
                  THEN [log |-> tag \o untag, err |-> untagErr]
                  ELSE [log |-> tag \o untag, err |-> NoErr]

\* setTagsAwsCloudHsm2Cluster: the requests it sends and the error it returns,
\* given how range walks create and what the two calls answer.
setTagsAwsCloudHsm2Cluster(id, old, new, order, untagErr, tagErr) ==
    IF old # new
    THEN LET diff == diffTagsGeneric(old, new)
             untag == IF DOMAIN diff.remove # {}
                      THEN <<UntagResourceInput(id, diff.remove)>> ELSE <<>>
             tag == IF DOMAIN diff.create # {}
                    THEN <<TagResourceInput(id, TagList(diff.create, order))>> ELSE <<>>
         IN  IF untag # <<>> /\ untagErr # NoErr
             THEN [log |-> untag, err |-> untagErr]
             ELSE IF tag # <<>> /\ tagErr # NoErr
                  THEN [log |-> untag \o tag, err |-> tagErr]
                  ELSE [log |-> untag \o tag, err |-> NoErr]
    ELSE [log |-> <<>>, err |-> NoErr]

-----------------------------------------------------------------------------
(* Read                                                                    *)

\* d.Set(key, value): an attribute of the resource's schema takes the value;
\* a key the schema does not declare stores nothing.
Set(schema, data, key, value) ==
    IF key \in schema THEN [data EXCEPT ![key] = value] ELSE data

\* readCloudHsm2ClusterCertificates: one map, filled by the cluster's state.
readCloudHsm2ClusterCertificates(cluster) ==
    LET c == cluster.Certificates
        certs ==
          IF ~c.isNil
          THEN IF cluster.State = "UNINITIALIZED"
               THEN [k \in {"cluster_csr", "aws_hardware_certificate",
                            "hsm_certificate", "manufacturer_hardware_certificate"} |->
                       CASE k = "cluster_csr" -> c.ClusterCsr
                         [] k = "aws_hardware_certificate" -> c.AwsHardwareCertificate
                         [] k = "hsm_certificate" -> c.HsmCertificate
                         [] k = "manufacturer_hardware_certificate" ->
                              c.ManufacturerHardwareCertificate]
               ELSE IF cluster.State = "ACTIVE"
                    THEN [k \in {"cluster_certificate"} |-> c.ClusterCertificate]
                    ELSE <<>>
          ELSE <<>>
    IN  <<certs>>

\* Mutant: an absent cluster leaves the identifier in place.
resourceAwsCloudHsm2ClusterRead_KeepsId(data, out) ==
    [d |-> data, ret |-> describeCloudHsm2Cluster(out, data.id).err]

\* resourceAwsCloudHsm2ClusterRead: the attributes and the error it leaves.
resourceAwsCloudHsm2ClusterRead(data, out) ==
    LET r == describeCloudHsm2Cluster(out, data.id)
        cluster == r.cluster
        d1 == Set(ClusterSchema, data, "cluster_id", cluster.ClusterId)
        d2 == Set(ClusterSchema, d1, "cluster_state", cluster.State)
        d3 == Set(ClusterSchema, d2, "backup_identifier", cluster.SourceBackupId)
        d4 == Set(ClusterSchema, d3, "cluster_certificate",
                  readCloudHsm2ClusterCertificates(cluster))
    IN  IF cluster.isNil
        THEN [d |-> SetId(data, ""), ret |-> r.err]
        ELSE [d |-> d4, ret |-> NoErr]

\* resourceAwsCloudHsm2HsmRead
resourceAwsCloudHsm2HsmRead(data, out) ==
    LET r == describeHsm(out, data.cluster_id, data.id)
    IN  IF r.hsm.isNil
        THEN [d |-> SetId(data, ""), ret |-> r.err]
        ELSE [d |-> Set(HsmSchema, data, "hsm_state", r.hsm.State), ret |-> NoErr]

-----------------------------------------------------------------------------
(* The state machine                                                       *)

Creates == {"ClusterCreate", "HsmCreate"}
ClusterOps == {"ClusterCreate", "ClusterDelete", "ClusterRead", "ClusterUpdate"}

Init ==
    /\ op = "none" /\ pc = "idle" /\ d = NoData /\ req = NoReq
    /\ calls = 0 /\ lastErr = NoErr /\ rElapsed = 0
    /\ conf = NoConf /\ elapsed = 0 /\ polls = 0
    /\ desc = NoDesc /\ rf = NoRf /\ waitOut = NoWait
    /\ output = "" /\ tagLog = <<>> /\ ret = NoErr
    /\ describes = 0 /\ subnetMapping = NoSubnetMapping
    /\ tags = NoTags /\ tagsErr = NoErr

\* What a handler has not touched when the framework calls it.
untouched == <<req, calls, lastErr, rElapsed, conf, elapsed, polls, desc, rf,
               waitOut, output, tagLog, ret, describes, subnetMapping, tags, tagsErr>>

\* What a DescribeClusters call really answered: its error, whether the
\* entity asked for was listed, and whether the cluster asked for came with
\* certificates.
Answer(by, out, clusterId, listed) ==
    [by |-> by, err |-> out.err, listed |-> listed,
     certs |-> \E i \in DOMAIN out.Clusters :
                  /\ out.Clusters[i].ClusterId = clusterId
                  /\ ~out.Clusters[i].Certificates.isNil]

\* The framework calls a handler with the resource's data.
ClusterCreateBegin ==
    /\ pc = "idle"
    /\ \E b \in BackupIds : d' = [NoData EXCEPT !.backup_identifier = b]
    /\ op' = "ClusterCreate" /\ pc' = "mutate"
    /\ UNCHANGED untouched

ClusterDeleteBegin ==
    /\ pc = "idle"
    /\ \E id \in ClusterIds, b \in BackupIds :
          d' = [NoData EXCEPT !.id = id, !.cluster_id = id, !.backup_identifier = b]
    /\ op' = "ClusterDelete" /\ pc' = "mutate"
    /\ UNCHANGED untouched

HsmCreateBegin ==
    /\ pc = "idle"
    /\ \E c \in ClusterIds, az \in AvailabilityZones, sn \in SubnetIds,
          ip \in IpAddresses :
          d' = [NoData EXCEPT !.cluster_id = c, !.availability_zone = az,
                              !.subnet_id = sn, !.ip_address = ip]
    /\ op' = "HsmCreate" /\ pc' = "lookup"
    /\ UNCHANGED untouched

HsmDeleteBegin ==
    /\ pc = "idle"
    /\ \E c \in ClusterIds, h \in HsmIds :
          d' = [NoData EXCEPT !.id = h, !.cluster_id = c]
    /\ op' = "HsmDelete" /\ pc' = "mutate"
    /\ UNCHANGED untouched

ClusterReadBegin ==
    /\ pc = "idle"
    /\ \E id \in ClusterIds : d' = [NoData EXCEPT !.id = id, !.cluster_id = id]
    /\ op' = "ClusterRead" /\ pc' = "read"
    /\ UNCHANGED untouched

HsmReadBegin ==
    /\ pc = "idle"
    /\ \E c \in ClusterIds, h \in HsmIds :
          d' = [NoData EXCEPT !.id = h, !.cluster_id = c]
    /\ op' = "HsmRead" /\ pc' = "read"
    /\ UNCHANGED untouched

ClusterUpdateBegin ==
    /\ pc = "idle"
    /\ \E id \in ClusterIds : d' = [NoData EXCEPT !.id = id, !.cluster_id = id]
    /\ op' = "ClusterUpdate" /\ pc' = "tags"
    /\ UNCHANGED untouched

HsmUpdateBegin ==
    /\ pc = "idle"
    /\ \E c \in ClusterIds, h \in HsmIds :
          d' = [NoData EXCEPT !.id = h, !.cluster_id = c]
    /\ op' = "HsmUpdate" /\ pc' = "read"
    /\ UNCHANGED untouched

\* resourceAwsCloudHsm2HsmCreate, up to the request: the owning cluster is
\* looked up first, and a nil cluster returns err.
HsmCreateLookup ==
    /\ op = "HsmCreate" /\ pc = "lookup"
    /\ \E out \in LookupOutputs :
          LET r == describeCloudHsm2Cluster(out, d.cluster_id)
          IN  /\ desc' = Answer("lookup", out, d.cluster_id,
                                ClusterListed(out, d.cluster_id))
              /\ subnetMapping' = r.cluster.SubnetMapping
              /\ IF r.cluster.isNil
                 THEN pc' = "done" /\ ret' = r.err
                 ELSE pc' = "mutate" /\ ret' = ret
    /\ describes' = describes + 1
    /\ UNCHANGED <<op, d, req, calls, lastErr, rElapsed, conf, elapsed, polls, rf,
                   waitOut, output, tagLog, tags, tagsErr>>

\* The input of the handler's mutating call; mapping is the SubnetMapping of
\* the cluster HSM Create has looked up.
Input(o, data, mapping) ==
    CASE o = "ClusterCreate" -> ClusterCreateInput(data.backup_identifier)
      [] o = "ClusterDelete" -> ClusterDeleteInput(data.id)
      [] o = "HsmCreate" ->
           HsmCreateInput(data.cluster_id,
                          availabilityZone(data.availability_zone, data.subnet_id,
                                           mapping),
                          data.ip_address)
      [] o = "HsmDelete" -> HsmDeleteInput(data.cluster_id, data.id)

\* The identifiers the remote system can assign to what a create call makes.
NewIds(o) ==
    CASE o = "ClusterCreate" -> ClusterIds
      [] o = "HsmCreate" -> HsmIds
      [] OTHER -> {""}

\* One attempt of the mutating call inside resource.Retry, and what follows
\* it: the wait is set up (after d.SetId, for a create), the call is tried
\* again, or the handler returns the error.
Mutate ==
    /\ pc = "mutate"
    /\ \E err \in ApiErrors \cup {NoErr}, id \in NewIds(op) :
          LET next == Retry(RetryTimeout, rElapsed, RetryFunc(op, err))
          IN  /\ req' = Input(op, d, subnetMapping)
              /\ calls' = calls + 1
              /\ lastErr' = err
              /\ CASE next = "done" ->
                        /\ output' = id
                        /\ d' = IF op \in Creates THEN SetId(d, id) ELSE d
                        /\ conf' = StateConf(op, d.backup_identifier)
                        /\ elapsed' = Delay
                        /\ pc' = "wait"
                        /\ UNCHANGED <<rElapsed, ret>>
                   [] next = "again" ->
                        /\ rElapsed' = rElapsed + 1
                        /\ UNCHANGED <<output, d, conf, elapsed, pc, ret>>
                   [] next = "fail" ->
                        /\ pc' = "done" /\ ret' = err
                        /\ UNCHANGED <<output, d, conf, elapsed, rElapsed>>
    /\ UNCHANGED <<op, polls, desc, rf, waitOut, tagLog, describes, subnetMapping,
                   tags, tagsErr>>

Outputs(o) == IF o \in ClusterOps THEN ClusterOutputs ELSE HsmOutputs

Refresh(o, data, out) ==
    IF o \in ClusterOps
    THEN resourceAwsCloudHsm2ClusterRefreshFunc(out, data.id)
    ELSE resourceAwsCloudHsm2HsmRefreshFunc(out, data.cluster_id, data.id)

Listed(o, data, out) ==
    IF o \in ClusterOps
    THEN ClusterListed(out, data.id)
    ELSE HsmListed(out, data.cluster_id, data.id)

\* WaitForState returns w to the handler, which returns or goes on.
WaitReturn(w) ==
    LET after == AfterWait(op, d.backup_identifier, w.err)
    IN  /\ waitOut' = w
        /\ pc' = after.pc
        /\ ret' = after.ret

\* One round of WaitForState: the refresh function is called and its answer
\* ends the wait or, on a pending state, costs MinTimeout.
Poll ==
    /\ pc = "wait" /\ elapsed < conf.Timeout
    /\ \E out \in Outputs(op) :
          LET r == Refresh(op, d, out)
              step == WaitForStateStep(conf, r)
          IN  /\ desc' = Answer("refresh", out, IF op \in ClusterOps THEN d.id
                                                   ELSE d.cluster_id,
                                Listed(op, d, out))
              /\ rf' = r
              /\ polls' = polls + 1
              /\ CASE step = "pending" ->
                        /\ elapsed' = elapsed + MinTimeout
                        /\ UNCHANGED <<waitOut, pc, ret>>
                   [] step = "target" ->
                        /\ WaitReturn([done |-> TRUE, res |-> r.res, err |-> NoErr])
                        /\ UNCHANGED elapsed
                   [] step = "error" ->
                        /\ WaitReturn([done |-> TRUE, res |-> r.res, err |-> r.err])
                        /\ UNCHANGED elapsed
                   [] step = "unexpected" ->
                        /\ WaitReturn([done |-> TRUE, res |-> r.res,
                                       err |-> UnexpectedStateError(r.state)])
                        /\ UNCHANGED elapsed
    /\ describes' = describes + 1
    /\ UNCHANGED <<op, d, req, calls, lastErr, rElapsed, conf, output, tagLog,
                   subnetMapping, tags, tagsErr>>

\* The timeout of WaitForState passes before a target state was seen.
WaitTimedOut ==
    /\ pc = "wait" /\ elapsed >= conf.Timeout
    /\ WaitReturn([done |-> TRUE, res |-> NilRes, err |-> TimeoutError(rf.state)])
    /\ UNCHANGED <<op, d, req, calls, lastErr, rElapsed, conf, elapsed, polls, desc, rf,
                   output, tagLog, describes, subnetMapping, tags, tagsErr>>

\* setTagsAwsCloudHsm2Cluster in Create (nothing persisted yet) and in Update.
SetTags ==
    /\ pc = "tags"
    /\ \E old \in IF op = "ClusterCreate" THEN {<<>>} ELSE TagMaps, new \in TagMaps,
          untagErr \in {NoErr} \cup TagErrors, tagErr \in {NoErr} \cup TagErrors :
          \E order \in Orders(DOMAIN diffTagsGeneric(old, new).create) :
              LET r == setTagsAwsCloudHsm2Cluster(d.id, old, new, order, untagErr, tagErr)
              IN  /\ tagLog' = r.log
                  /\ tags' = [old |-> old, new |-> new]
                  /\ tagsErr' = r.err
                  /\ IF r.err # NoErr
                     THEN pc' = "done" /\ ret' = r.err
                     ELSE pc' = "read" /\ ret' = ret
    /\ UNCHANGED <<op, d, req, calls, lastErr, rElapsed, conf, elapsed, polls, desc, rf,
                   waitOut, output, describes, subnetMapping>>

\* resourceAwsCloudHsm2ClusterRead / resourceAwsCloudHsm2HsmRead, called by the
\* framework or as the last step of Create and Update.
Read ==
    /\ pc = "read"
    /\ \E out \in Outputs(op) :
          LET r == IF op \in ClusterOps
                   THEN resourceAwsCloudHsm2ClusterRead(d, out)
                   ELSE resourceAwsCloudHsm2HsmRead(d, out)
          IN  /\ desc' = Answer("read", out, IF op \in ClusterOps THEN d.id
                                                ELSE d.cluster_id,
                                Listed(op, d, out))
              /\ d' = r.d
              /\ ret' = r.ret
    /\ pc' = "done"
    /\ describes' = describes + 1
    /\ UNCHANGED <<op, req, calls, lastErr, rElapsed, conf, elapsed, polls, rf, waitOut,
                   output, tagLog, subnetMapping, tags, tagsErr>>

\* The handler has returned; the framework may call the next one.
Return ==
    /\ pc = "done"
    /\ op' = "none" /\ pc' = "idle" /\ d' = NoData /\ req' = NoReq
    /\ calls' = 0 /\ lastErr' = NoErr /\ rElapsed' = 0
    /\ conf' = NoConf /\ elapsed' = 0 /\ polls' = 0
    /\ desc' = NoDesc /\ rf' = NoRf /\ waitOut' = NoWait
    /\ output' = "" /\ tagLog' = <<>> /\ ret' = NoErr
    /\ describes' = 0 /\ subnetMapping' = NoSubnetMapping
    /\ tags' = NoTags /\ tagsErr' = NoErr

Next ==
    \/ ClusterCreateBegin \/ ClusterDeleteBegin \/ HsmCreateBegin \/ HsmDeleteBegin
    \/ ClusterReadBegin \/ HsmReadBegin \/ ClusterUpdateBegin \/ HsmUpdateBegin
    \/ HsmCreateLookup \/ Mutate \/ Poll \/ WaitTimedOut \/ SetTags \/ Read \/ Return

Spec == Init /\ [][Next]_vars

\* A handler that is running takes its next step: every call returns.
FairSpec == Spec /\ WF_vars(Next)

-----------------------------------------------------------------------------
(* Properties                                                              *)

\* The one error the retry functions are to retry.
Transient ==
    [code |-> "CloudHsmInternalFailureException",
     msg |-> "request was rejected because of an AWS CloudHSM internal failure"]

\* The pending and target sets as the design states them.
StatedPending(o) ==
    CASE o = "ClusterCreate" -> {"CREATE_IN_PROGRESS", "INITIALIZE_IN_PROGRESS"}
      [] o = "ClusterDelete" -> {"DELETE_IN_PROGRESS"}
      [] o = "HsmCreate" -> {"CREATE_IN_PROGRESS", "destroyed"}
      [] o = "HsmDelete" -> {"DELETE_IN_PROGRESS"}
      [] OTHER -> {}

StatedTarget(o, backupId) ==
    CASE o = "ClusterCreate" -> IF backupId = "" THEN {"UNINITIALIZED"} ELSE {"ACTIVE"}
      [] o = "ClusterDelete" -> {"DELETED"}
      [] o = "HsmCreate" -> {"ACTIVE"}
      [] o = "HsmDelete" -> {"destroyed"}
      [] OTHER -> {}

\* The last describe call was a poll of the wait that answered without error
\* and did not list the entity.
PollFoundAbsent == desc.by = "refresh" /\ desc.err = NoErr /\ ~desc.listed

\* C1: in cluster Create and HSM Create the identifier the create call
\* returned is in the persisted state from before the first poll on, and it
\* is still there, non-empty, when Create returns the error of a failed wait.
C1_IdentifierRecordedBeforeWait ==
    op \in Creates =>
        /\ pc = "wait" => d.id = output /\ d.id # ""
        /\ (pc = "done" /\ waitOut.done /\ waitOut.err # NoErr) =>
               ret # NoErr /\ d.id = output /\ d.id # ""

C1_Witness ==
    /\ op \in Creates /\ pc = "done" /\ polls > 0
    /\ waitOut.err.code \in {"TimeoutError", "UnexpectedStateError"}
    /\ ret # NoErr /\ d.id = output

\* C2: cluster Create waits on the pending set {CREATE_IN_PROGRESS,
\* INITIALIZE_IN_PROGRESS} for the target UNINITIALIZED when no backup
\* identifier was given and ACTIVE when one was, sends that identifier as
\* SourceBackupId, and its wait succeeds on no other state.
C2_ClusterCreateTargetFollowsBackup ==
    (op = "ClusterCreate" /\ desc.by # "read") =>
        /\ calls > 0 =>
               req.api = "CreateCluster" /\ req.SourceBackupId = d.backup_identifier
        /\ (pc = "wait" \/ waitOut.done) =>
               /\ conf.Pending = {"CREATE_IN_PROGRESS", "INITIALIZE_IN_PROGRESS"}
               /\ d.backup_identifier = "" => conf.Target = {"UNINITIALIZED"}
               /\ d.backup_identifier # "" => conf.Target = {"ACTIVE"}
        /\ (waitOut.done /\ waitOut.err = NoErr) =>
               /\ d.backup_identifier = "" => rf.state = "UNINITIALIZED"
               /\ d.backup_identifier # "" => rf.state = "ACTIVE"

C2_Witness ==
    /\ op = "ClusterCreate" /\ desc.by = "refresh" /\ d.backup_identifier = "backup-123"
    /\ req.SourceBackupId = "backup-123"
    /\ waitOut.done /\ waitOut.err = NoErr /\ rf.state = "ACTIVE" /\ polls > 1

\* Where the retry stands after each attempt, by the error of that attempt.
C3_RetryState ==
    /\ rElapsed < RetryTimeout
    /\ calls <= RetryTimeout
    /\ (calls > 0 /\ pc # "mutate") => calls = rElapsed + 1
    /\ (calls > 0 /\ lastErr = NoErr) => pc # "mutate"
    /\ (calls > 0 /\ lastErr # NoErr /\ lastErr # Transient) =>
           pc = "done" /\ ret = lastErr /\ ~waitOut.done
    /\ lastErr = Transient =>
           \/ pc = "mutate"
           \/ pc = "done" /\ ret = lastErr /\ rElapsed + 1 = RetryTimeout /\ ~waitOut.done

\* When the number of mutating calls may grow.
C3_RetryStep ==
    /\ calls' \in {calls, calls + 1, 0}
    /\ (calls > 0 /\ calls' = calls + 1) => lastErr = Transient
    /\ (calls > 0 /\ lastErr = NoErr) => calls' \in {calls, 0}

\* C3: a mutating call is issued again only after an attempt that failed with
\* the transient internal failure while the ceiling of the retry allows it,
\* and then it is; after a success no further call is made, any other error
\* is returned at once, and at the ceiling the last error is returned.
C3_RetryOnlyWhileTransient == [](C3_RetryState) /\ [][C3_RetryStep]_vars

C3_Witness ==
    /\ calls = 3 /\ lastErr = NoErr /\ pc = "wait" /\ op = "HsmDelete"

\* C4: when the describe call under a refresh function fails, the refresh
\* function returns that error and the wait stops with it.
C4_RefreshReturnsDescribeError ==
    (desc.by = "refresh" /\ desc.err # NoErr) =>
        rf.err = desc.err /\ waitOut.done /\ waitOut.err = desc.err

\* C5: when a describe call that succeeded does not list the cluster, or the
\* HSM in its cluster, the refresh function returns "destroyed" and no error.
C5_AbsentIsDestroyedWithoutError ==
    PollFoundAbsent => rf.state = "destroyed" /\ rf.err = NoErr

C5_Witness ==
    /\ PollFoundAbsent /\ op = "HsmCreate" /\ rf.state = "destroyed" /\ pc = "wait"

\* A poll that sees a state outside both sets, and the steps after it.
C6_UnexpectedStep ==
    /\ (/\ pc = "wait" /\ polls' = polls + 1 /\ rf'.err = NoErr
        /\ rf'.state \notin StatedPending(op) \cup StatedTarget(op, d.backup_identifier))
       => /\ waitOut'.done
          /\ waitOut'.err = [code |-> "UnexpectedStateError", msg |-> rf'.state]
          /\ pc' = "done" /\ ret' # NoErr
    /\ waitOut.err.code = "UnexpectedStateError" => polls' \in {polls, 0}

\* C6: in every wait, a poll whose state is in neither the pending nor the
\* target set ends the wait at once with an unexpected-state error, whatever
\* is left of the timeout, and no refresh call follows it.
C6_UnexpectedStateEndsWait == [][C6_UnexpectedStep]_vars

C6_Witness ==
    /\ op = "ClusterDelete" /\ rf.state = "ACTIVE" /\ polls > 1
    /\ waitOut.err.code = "UnexpectedStateError" /\ elapsed < conf.Timeout
    /\ pc = "done" /\ ret # NoErr

\* What a successful wait has seen and returns.
C7_SuccessState ==
    (desc.by = "refresh" /\ waitOut.done /\ waitOut.err = NoErr) =>
        /\ rf.err = NoErr
        /\ rf.state \in StatedTarget(op, d.backup_identifier)
        /\ rf.state \notin StatedPending(op)
        /\ waitOut.res = rf.res
        /\ rf.res.kind \in {"cluster", "hsm"} => rf.res.state = rf.state

\* A poll that sees a target state, and the steps after it.
C7_SuccessStep ==
    /\ (/\ pc = "wait" /\ polls' = polls + 1 /\ rf'.err = NoErr
        /\ rf'.state \in StatedTarget(op, d.backup_identifier))
       => waitOut'.done /\ waitOut'.err = NoErr /\ waitOut'.res = rf'.res
    /\ (waitOut.done /\ waitOut.err = NoErr) => polls' \in {polls, 0}

\* C7: a wait that saw pending states and then a target state returns
\* success with the entity and the state of that last poll; it polls no more
\* after it and never succeeds on a pending state.
C7_TargetEndsWaitWithSuccess == [](C7_SuccessState) /\ [][C7_SuccessStep]_vars

C7_Witness ==
    /\ op = "HsmCreate" /\ polls > 2 /\ waitOut.done /\ waitOut.err = NoErr
    /\ waitOut.res.kind = "hsm" /\ waitOut.res.state = "ACTIVE" /\ waitOut.res.id = d.id

\* The polls are bounded by the timeout, and what a timed-out wait reports.
C8_TimeoutState ==
    /\ pc = "wait" => polls < conf.Timeout
    /\ waitOut.err.code = "TimeoutError" =>
           /\ polls > 0 /\ elapsed >= conf.Timeout
           /\ waitOut.err.msg = rf.state /\ rf.state \in StatedPending(op)
           /\ pc = "done" /\ ret # NoErr

\* C8: a wait whose polls only see pending states ends: when the timeout has
\* passed it fails with a timeout error that carries the last pending state
\* seen, and the handler returns an error.
C8_PendingWaitTimesOut == [](C8_TimeoutState) /\ (pc = "wait" ~> pc = "done")

C8_Witness ==
    /\ op = "HsmDelete" /\ waitOut.err = [code |-> "TimeoutError", msg |-> "DELETE_IN_PROGRESS"]
    /\ polls > 1 /\ pc = "done" /\ ret # NoErr

\* C9: HSM Delete waits on the pending set {DELETE_IN_PROGRESS} for the
\* target "destroyed" alone: a poll that finds the HSM gone from its cluster
\* makes Delete succeed, a poll that sees the state DELETED does not.
C9_HsmDeleteTargetIsDestroyed ==
    op = "HsmDelete" =>
        /\ (pc = "wait" \/ waitOut.done) =>
               conf.Pending = {"DELETE_IN_PROGRESS"} /\ conf.Target = {"destroyed"}
        /\ PollFoundAbsent =>
               waitOut.done /\ waitOut.err = NoErr /\ pc = "done" /\ ret = NoErr
        /\ (desc.by = "refresh" /\ rf.state = "DELETED") =>
               /\ waitOut.done
               /\ waitOut.err = [code |-> "UnexpectedStateError", msg |-> "DELETED"]
               /\ pc = "done" /\ ret # NoErr

C9_Witness ==
    /\ op = "HsmDelete" /\ calls > 0 /\ lastErr = NoErr /\ polls > 1
    /\ PollFoundAbsent /\ pc = "done" /\ ret = NoErr

\* The polling part of C10 alone: in HSM Create a poll that does not find the HSM
\* ("destroyed") leaves the wait going, and the wait succeeds on ACTIVE only.
C10_DestroyedIsPending ==
    op = "HsmCreate" =>
        /\ (desc.by = "refresh" /\ rf.state = "destroyed") =>
               pc = "wait" \/ waitOut.err.code = "TimeoutError"
        /\ (waitOut.done /\ waitOut.err = NoErr) => rf.state = "ACTIVE"

\* C10: in HSM Create a poll that does not find the HSM ("destroyed") is
\* pending like CREATE_IN_PROGRESS, it never fails the create, and Create
\* succeeds only when a poll has seen ACTIVE.
C10_HsmCreateSucceedsOnlyOnActive ==
    op = "HsmCreate" =>
        /\ (desc.by = "refresh" /\ rf.state = "destroyed") =>
               pc = "wait" \/ waitOut.err.code = "TimeoutError"
        /\ (pc = "done" /\ ret = NoErr) =>
               polls > 0 /\ waitOut.done /\ waitOut.err = NoErr /\ rf.state = "ACTIVE"

\* C11: cluster Delete waits on the pending set {DELETE_IN_PROGRESS} for the
\* target DELETED alone: it succeeds only when a poll has seen the cluster in
\* the state DELETED, and a poll that no longer finds the cluster ends the
\* wait with the unexpected state "destroyed" and fails Delete.
C11_ClusterDeleteWaitsForDeleted ==
    op = "ClusterDelete" =>
        /\ pc = "wait" =>
               conf.Pending = {"DELETE_IN_PROGRESS"} /\ conf.Target = {"DELETED"}
        /\ (pc = "done" /\ ret = NoErr) =>
               /\ polls > 0 /\ desc.by = "refresh" /\ desc.err = NoErr /\ desc.listed
               /\ rf.state = "DELETED"
        /\ PollFoundAbsent =>
               /\ waitOut.done
               /\ waitOut.err = [code |-> "UnexpectedStateError", msg |-> "destroyed"]
               /\ pc = "done" /\ ret # NoErr

C11_Witness ==
    /\ op = "ClusterDelete" /\ PollFoundAbsent /\ polls > 1 /\ pc = "done"
    /\ waitOut.err.msg = "destroyed" /\ ret # NoErr

\* Where a Read handler stands: it sends no mutating call, sets up no wait,
\* polls nothing and has described once when it is done.
C12_ReadState ==
    op \in {"ClusterRead", "HsmRead"} =>
        /\ calls = 0 /\ polls = 0 /\ conf = NoConf /\ ~waitOut.done
        /\ pc \in {"read", "done"}
        /\ describes = IF pc = "done" THEN 1 ELSE 0

\* The one step of Read: one describe call and the handler is done; the
\* identifier is cleared when the call answered without the entity and kept
\* when it answered with it.
C12_ReadStep ==
    pc = "read" =>
        /\ describes' = describes + 1 /\ polls' = polls /\ pc' = "done"
        /\ desc'.by = "read"
        /\ (desc'.err = NoErr /\ ~desc'.listed) => (d'.id = "" /\ ret' = NoErr)
        /\ (desc'.err = NoErr /\ desc'.listed) => (d'.id = d.id /\ d.id # "")

\* C12: Read, for a cluster and for an HSM, issues exactly one describe call
\* and never waits or polls; when the call succeeds and the entity is absent
\* it clears the identifier and returns no error, and when the entity is
\* present it leaves the identifier as it was.
C12_ReadDescribesOnce == [](C12_ReadState) /\ [][C12_ReadStep]_vars

C12_Witness ==
    /\ op = "ClusterRead" /\ pc = "done" /\ describes = 1 /\ desc.by = "read"
    /\ desc.err = NoErr /\ ~desc.listed /\ d.id = "" /\ d.cluster_id # "" /\ ret = NoErr

\* C13: an HSM Create given only subnet_id, a subnet of the owning cluster,
\* sends the availability zone under which the cluster's map holds that
\* subnet; a zone given explicitly is sent as it is.
C13_ZoneResolvedFromSubnet ==
    (op = "HsmCreate" /\ req.api = "CreateHsm") =>
        /\ d.availability_zone # "" => req.AvailabilityZone = d.availability_zone
        /\ (/\ d.availability_zone = ""
            /\ \E az \in DOMAIN subnetMapping : subnetMapping[az] = d.subnet_id)
           => /\ req.AvailabilityZone \in DOMAIN subnetMapping
              /\ subnetMapping[req.AvailabilityZone] = d.subnet_id

C13_Witness ==
    /\ op = "HsmCreate" /\ req.api = "CreateHsm" /\ d.availability_zone = ""
    /\ d.subnet_id = "subnet-2" /\ req.AvailabilityZone = "us-east-1b"
    /\ DOMAIN subnetMapping = {"us-east-1a", "us-east-1b"}

\* The projection of the certificates, by the state of the cluster.
StatedCertificates(state) ==
    IF state = "UNINITIALIZED"
    THEN <<[cluster_csr |-> "csr", aws_hardware_certificate |-> "aws-hw",
            hsm_certificate |-> "hsm", manufacturer_hardware_certificate |-> "mfr-hw"]>>
    ELSE <<[cluster_certificate |-> "cluster-cert"]>>

\* C14: after a cluster Read of a cluster that carries certificates and is
\* UNINITIALIZED or ACTIVE, the attribute cluster_certificates holds the
\* projection of those certificates for that state.
C14_CertificatesStored ==
    (/\ op \in ClusterOps /\ desc.by = "read" /\ desc.err = NoErr /\ desc.listed
     /\ desc.certs /\ d.cluster_state \in {"UNINITIALIZED", "ACTIVE"})
    => d.cluster_certificates = StatedCertificates(d.cluster_state)

\* C15: cluster Create sends no tag or untag request before its wait has
\* succeeded, and none when the create call or the wait fails; an untag
\* request goes before the tag request; the closing Read runs only after the
\* tags were synchronised without error, and a tag or untag call that fails
\* makes Create return that error without that Read.
C15_CreateTagsAfterWaitBeforeRead ==
    /\ op = "ClusterCreate" =>
        /\ pc \in {"mutate", "wait"} =>
               tagLog = <<>> /\ tags = NoTags /\ desc.by # "read"
        /\ (pc = "done" /\ (~waitOut.done \/ waitOut.err # NoErr)) =>
               tagLog = <<>> /\ tags = NoTags /\ desc.by # "read" /\ ret # NoErr
        /\ tagLog # <<>> =>
               /\ calls > 0 /\ lastErr = NoErr
               /\ waitOut.done /\ waitOut.err = NoErr
        /\ desc.by = "read" =>
               /\ waitOut.done /\ waitOut.err = NoErr
               /\ tagsErr = NoErr /\ pc = "done"
        /\ tagsErr # NoErr =>
               /\ pc = "done" /\ ret = tagsErr /\ desc.by = "refresh"
               /\ describes = polls
    /\ \A i, j \in DOMAIN tagLog :
           (tagLog[i].api = "UntagResource" /\ tagLog[j].api = "TagResource") => i < j

C15_Witness ==
    /\ op = "ClusterCreate" /\ pc = "done" /\ Len(tagLog) = 1
    /\ tagLog[1].api = "TagResource" /\ tagsErr # NoErr /\ ret = tagsErr
    /\ desc.by = "refresh" /\ polls > 1

\* C16: the TagResource request carries exactly one entry for each key added
\* or changed, each with its own key and that key's new value; the
\* UntagResource request carries exactly the removed keys; neither is sent
\* when its key set is empty or the tags did not change.
C16_TagRequestsCarryTheDiff ==
    LET added == {k \in DOMAIN tags.new :
                     k \notin DOMAIN tags.old \/ tags.old[k] # tags.new[k]}
        removed == DOMAIN tags.old \ DOMAIN tags.new
    IN  \A i \in DOMAIN tagLog :
            /\ tagLog[i].api = "TagResource" =>
                   LET l == tagLog[i].TagList
                   IN  /\ added # {}
                       /\ Len(l) = Cardinality(added)
                       /\ {l[j].Key : j \in DOMAIN l} = added
                       /\ \A j \in DOMAIN l : l[j].Value = tags.new[l[j].Key]
            /\ tagLog[i].api = "UntagResource" =>
                   removed # {} /\ tagLog[i].TagKeyList = removed
            /\ tags.old # tags.new

\* C17: HSM Create sends no CreateHsm request whose availability zone is not
\* a non-empty key of the owning cluster's zone-to-subnet map; given only a
\* subnet that is not one of the cluster's, it sends no request.
C17_ZoneBelongsToCluster ==
    (op = "HsmCreate" /\ req.api = "CreateHsm") =>
        req.AvailabilityZone # "" /\ req.AvailabilityZone \in DOMAIN subnetMapping

\* C18: Read clears the identifier only when the describe call answered
\* without error and without the entity; when the describe call fails, Read
\* returns that error and the identifier stays.
C18_ReadKeepsIdOnDescribeError ==
    desc.by = "read" =>
        /\ d.id = "" => (desc.err = NoErr /\ ~desc.listed)
        /\ desc.err # NoErr => (d.id # "" /\ ret = desc.err)

\* C19: HSM Delete succeeds only if, after DeleteHsm, a describe call
\* answered without error and without the HSM; a describe call that failed
\* never counts as the HSM being gone.
C19_HsmDeleteSucceedsOnlyWhenSeenGone ==
    (op = "HsmDelete" /\ pc = "done" /\ ret = NoErr) =>
        /\ req.api = "DeleteHsm" /\ lastErr = NoErr
        /\ desc.by = "refresh" /\ desc.err = NoErr /\ ~desc.listed

\* C20: HSM Create returns without error only if CreateHsm succeeded and a
\* later poll saw the HSM ACTIVE; not when the lookup of the owning cluster
\* finds no cluster.
C20_HsmCreateSucceedsOnlyAfterCreateHsm ==
    (op = "HsmCreate" /\ pc = "done" /\ ret = NoErr) =>
        /\ req.api = "CreateHsm" /\ calls > 0 /\ lastErr = NoErr /\ output # ""
        /\ polls > 0 /\ rf.res.kind = "hsm" /\ rf.res.state = "ACTIVE"

====
